---- MODULE Spec2Model ----
(***************************************************************************)
(* Model of the mycelnet-dns-protocol codec (crates/mycelnet-dns-protocol/ *)
(* src/lib.rs) and of the UDP service loop that uses it (src/main.rs).     *)
(*                                                                         *)
(* A byte buffer is a sequence of numbers in 0..255; Rust's 0-based        *)
(* data[i] is At(data, i).  Every codec function returns a record          *)
(*   [st |-> "ok", val |-> v]   the function returned Ok(v)                *)
(*   [st |-> "err"]             the function returned Err(_)               *)
(*   [st |-> "panic"]           an index or slice was out of range         *)
(*   [st |-> "overflow"]        the recursion never returned (the call     *)
(*                              stack was exhausted)                       *)
(***************************************************************************)
EXTENDS Integers, Sequences, FiniteSets, TLC

\* ------------------------------------------------------------------------
\* Result values and byte helpers
\* ------------------------------------------------------------------------
Ok(v) == [st |-> "ok", val |-> v]

Err == [st |-> "err"]

Panic == [st |-> "panic"]

Overflow == [st |-> "overflow"]

At(data, i) == data[i + 1]

InRange(data, i) == i >= 0 /\ i < Len(data)

\* data[from..to] as Rust slices it (to exclusive); the caller checks the range
Slice(data, from, to) == [k \in 1..(to - from) |-> data[from + k]]

\* (hi as u16) << 8 | lo as u16
U16(hi, lo) == hi * 256 + lo

\* (x >> n) & 1
Bit(x, n) == (x \div (2 ^ n)) % 2

RECURSIVE Concat(_)
Concat(ss) == IF ss = <<>> THEN <<>> ELSE Head(ss) \o Concat(Tail(ss))

\* ------------------------------------------------------------------------
\* Enumerations
\* ------------------------------------------------------------------------
DnsOpcodeVariants ==
    {"Query", "IQuery", "Status", "Reserved", "Notify", "Update",
     "DynamicStatefulOperations", "Unassigned"}

DnsOpcode_from_u8(opcode) ==
    CASE opcode = 0 -> "Query"
      [] opcode = 1 -> "IQuery"
      [] opcode = 2 -> "Status"
      [] opcode = 3 -> "Reserved"
      [] opcode = 4 -> "Notify"
      [] opcode = 5 -> "Update"
      [] opcode = 6 -> "DynamicStatefulOperations"
      [] OTHER -> "Unassigned"

DnsOpcode_to_u8(v) ==
    CASE v = "Query" -> 0
      [] v = "IQuery" -> 1
      [] v = "Status" -> 2
      [] v = "Reserved" -> 3
      [] v = "Notify" -> 4
      [] v = "Update" -> 5
      [] v = "DynamicStatefulOperations" -> 6
      [] v = "Unassigned" -> 7

DnsRcodeVariants ==
    {"NoError", "FormatError", "ServerFailure", "NameError", "NotImplemented",
     "Refused", "YXDomain", "YXRRSet", "NXRRSet", "NotAuth", "NotZone",
     "BadOptVersion", "BadSignature", "BadKey", "BadTimestamp", "BadMode",
     "BadName", "BadAlg", "BadTruncation", "Unassigned", "Reserved"}

RcodeLowNames ==
    <<"NoError", "FormatError", "ServerFailure", "NameError", "NotImplemented",
      "Refused", "YXDomain", "YXRRSet", "NXRRSet", "NotAuth", "NotZone">>

DnsRcode_from_u8(rcode8) ==
    LET rcode == rcode8 % 16
    IN  CASE rcode \in 0..10 -> RcodeLowNames[rcode + 1]
          [] rcode = 16 -> "BadOptVersion"
          [] OTHER -> "Unassigned"

DnsRcode_from_u16(rcode16) ==
    LET rcode == rcode16 % 4096
    IN  CASE rcode \in 0..10 -> RcodeLowNames[rcode + 1]
          [] rcode \in 11..15 -> "Unassigned"
          [] rcode = 16 -> "BadSignature"
          [] rcode = 17 -> "BadKey"
          [] rcode = 18 -> "BadTimestamp"
          [] rcode = 19 -> "BadMode"
          [] rcode = 20 -> "BadName"
          [] rcode = 21 -> "BadAlg"
          [] rcode = 22 -> "BadTruncation"
          [] rcode \in 23..3840 -> "Unassigned"
          [] rcode \in 3841..4095 -> "Reserved"
          [] rcode \in 4096..65534 -> "Unassigned"
          [] rcode = 65535 -> "Reserved"

DnsRcode_to_u8(v) ==
    CASE v = "NoError" -> 0
      [] v = "FormatError" -> 1
      [] v = "ServerFailure" -> 2
      [] v = "NameError" -> 3
      [] v = "NotImplemented" -> 4
      [] v = "Refused" -> 5
      [] v = "YXDomain" -> 6
      [] v = "YXRRSet" -> 7
      [] v = "NXRRSet" -> 8
      [] v = "NotAuth" -> 9
      [] v = "NotZone" -> 10
      [] v = "BadOptVersion" -> 16
      [] OTHER -> 0

DnsRcode_to_u16(v) ==
    CASE v = "NoError" -> 0
      [] v = "FormatError" -> 1
      [] v = "ServerFailure" -> 2
      [] v = "NameError" -> 3
      [] v = "NotImplemented" -> 4
      [] v = "Refused" -> 5
      [] v = "YXDomain" -> 6
      [] v = "YXRRSet" -> 7
      [] v = "NXRRSet" -> 8
      [] v = "NotAuth" -> 9
      [] v = "NotZone" -> 10
      [] v = "BadSignature" -> 16
      [] v = "BadKey" -> 17
      [] v = "BadTimestamp" -> 18
      [] v = "BadMode" -> 19
      [] v = "BadName" -> 20
      [] v = "BadAlg" -> 21
      [] v = "BadTruncation" -> 22
      [] OTHER -> 0

\* the arms of DnsQType::from_u16 other than the catch-all, as <<code, variant>>
QTypeFromArms ==
    { <<1, "A">>, <<2, "NS">>, <<3, "MD">>, <<4, "MF">>,
      <<5, "CNAME">>, <<6, "SOA">>, <<7, "MB">>, <<8, "MG">>,
      <<9, "MR">>, <<10, "NULL">>, <<11, "WKS">>, <<12, "PTR">>,
      <<13, "HINFO">>, <<14, "MINFO">>, <<15, "MX">>, <<16, "TXT">>,
      <<17, "RP">>, <<18, "AFSDB">>, <<19, "X25">>, <<20, "ISDN">>,
      <<21, "RT">>, <<22, "NSAP">>, <<23, "NsapPtr">>, <<24, "SIG">>,
      <<25, "KEY">>, <<26, "PX">>, <<27, "GPOS">>, <<28, "AAAA">>,
      <<29, "LOC">>, <<30, "NXT">>, <<31, "EID">>, <<32, "NIMLOC">>,
      <<33, "SRV">>, <<34, "ATMA">>, <<35, "NAPTR">>, <<36, "KX">>,
      <<37, "CERT">>, <<38, "A6">>, <<39, "DNAME">>, <<40, "SINK">>,
      <<41, "OPT">>, <<42, "APL">>, <<43, "DS">>, <<44, "SSHFP">>,
      <<45, "IPSECKEY">>, <<46, "RRSIG">>, <<47, "NSEC">>, <<48, "DNSKEY">>,
      <<49, "DHCID">>, <<50, "NSEC3">>, <<51, "NSEC3PARAM">>, <<52, "TLSA">>,
      <<53, "SMIMEA">>, <<55, "HIP">>, <<56, "NINFO">>, <<57, "RKEY">>,
      <<58, "TALINK">>, <<59, "CDS">>, <<60, "CDNSKEY">>, <<61, "OPENPGPKEY">>,
      <<62, "CSYNC">>, <<63, "ZONEMD">>, <<64, "SVCB">>, <<65, "HTTPS">>,
      <<99, "SPF">>, <<100, "UINFO">>, <<101, "UID">>, <<102, "GID">>,
      <<103, "UNSPEC">>, <<104, "NID">>, <<105, "L32">>, <<106, "L64">>,
      <<107, "LP">>, <<108, "EUI48">>, <<109, "EUI64">>, <<249, "TKEY">>,
      <<250, "TSIG">>, <<251, "IXFR">>, <<252, "AXFR">>, <<253, "MAILB">>,
      <<254, "MAILA">>, <<255, "ALL">>, <<256, "URI">>, <<257, "CAA">>,
      <<258, "AVC">>, <<259, "DOA">>, <<260, "AMTRELAY">>, <<32768, "TA">>,
      <<32769, "DLV">> }

\* the arms of DnsQType::to_u16, as <<variant, code>>
QTypeToArms ==
    { <<"A", 1>>, <<"NS", 2>>, <<"MD", 3>>, <<"MF", 4>>,
      <<"CNAME", 5>>, <<"SOA", 6>>, <<"MB", 7>>, <<"MG", 8>>,
      <<"MR", 9>>, <<"NULL", 10>>, <<"WKS", 11>>, <<"PTR", 12>>,
      <<"HINFO", 13>>, <<"MINFO", 14>>, <<"MX", 15>>, <<"TXT", 16>>,
      <<"RP", 17>>, <<"AFSDB", 18>>, <<"X25", 19>>, <<"ISDN", 20>>,
      <<"RT", 21>>, <<"NSAP", 22>>, <<"NsapPtr", 23>>, <<"SIG", 24>>,
      <<"KEY", 25>>, <<"PX", 26>>, <<"GPOS", 27>>, <<"AAAA", 28>>,
      <<"LOC", 29>>, <<"NXT", 30>>, <<"EID", 31>>, <<"NIMLOC", 32>>,
      <<"SRV", 33>>, <<"ATMA", 34>>, <<"NAPTR", 35>>, <<"KX", 36>>,
      <<"CERT", 37>>, <<"A6", 38>>, <<"DNAME", 39>>, <<"SINK", 40>>,
      <<"OPT", 41>>, <<"APL", 42>>, <<"DS", 43>>, <<"SSHFP", 44>>,
      <<"IPSECKEY", 45>>, <<"RRSIG", 46>>, <<"NSEC", 47>>, <<"DNSKEY", 48>>,
      <<"DHCID", 49>>, <<"NSEC3", 50>>, <<"NSEC3PARAM", 51>>, <<"TLSA", 52>>,
      <<"SMIMEA", 53>>, <<"HIP", 55>>, <<"NINFO", 56>>, <<"RKEY", 57>>,
      <<"TALINK", 58>>, <<"CDS", 59>>, <<"CDNSKEY", 60>>, <<"OPENPGPKEY", 61>>,
      <<"CSYNC", 62>>, <<"ZONEMD", 63>>, <<"SVCB", 64>>, <<"HTTPS", 65>>,
      <<"SPF", 99>>, <<"UINFO", 100>>, <<"UID", 101>>, <<"GID", 102>>,
      <<"UNSPEC", 103>>, <<"NID", 104>>, <<"L32", 105>>, <<"L64", 106>>,
      <<"LP", 107>>, <<"EUI48", 108>>, <<"EUI64", 109>>, <<"TKEY", 249>>,
      <<"TSIG", 250>>, <<"IXFR", 251>>, <<"AXFR", 252>>, <<"MAILB", 253>>,
      <<"MAILA", 254>>, <<"ALL", 255>>, <<"URI", 256>>, <<"CAA", 257>>,
      <<"AVC", 258>>, <<"DOA", 259>>, <<"AMTRELAY", 260>>, <<"TA", 32768>>,
      <<"DLV", 32769>>, <<"Unassigned", 0>> }

DnsQTypeVariants == {a[1] : a \in QTypeToArms}

DnsQType_from_u16(qtype) ==
    IF \E a \in QTypeFromArms : a[1] = qtype
    THEN (CHOOSE a \in QTypeFromArms : a[1] = qtype)[2]
    ELSE "Unassigned"

DnsQType_to_u16(v) == (CHOOSE a \in QTypeToArms : a[1] = v)[2]

DnsQType_to_bytes(v) ==
    LET qtype == DnsQType_to_u16(v)
    IN  <<(qtype \div 256) % 256, qtype % 256>>

DnsClassVariants ==
    {"IN", "CS", "CH", "HS", "NONE", "ANY", "Unassigned", "Reserved"}

DnsClass_from_u16(rclass) ==
    CASE rclass = 1 -> "IN"
      [] rclass = 2 -> "CS"
      [] rclass = 3 -> "CH"
      [] rclass = 4 -> "HS"
      [] rclass = 254 -> "NONE"
      [] rclass = 255 -> "ANY"
      [] rclass = 0 -> "Reserved"
      [] rclass \in 5..253 -> "Unassigned"
      [] rclass \in 65280..65534 -> "Reserved"
      [] rclass = 65535 -> "Reserved"
      [] OTHER -> "Unassigned"

DnsClass_to_u16(v) ==
    CASE v = "IN" -> 1
      [] v = "CS" -> 2
      [] v = "CH" -> 3
      [] v = "HS" -> 4
      [] v = "NONE" -> 254
      [] v = "ANY" -> 255
      [] v = "Reserved" -> 0
      [] v = "Unassigned" -> 0

DnsClass_to_bytes(v) ==
    LET rclass == DnsClass_to_u16(v)
    IN  <<(rclass \div 256) % 256, rclass % 256>>

\* ------------------------------------------------------------------------
\* u8 arithmetic used by the flag packing
\* ------------------------------------------------------------------------
\* (x << n) as u8: the bits shifted past bit 7 are lost
Shl8(x, n) == (x * (2 ^ n)) % 256

RECURSIVE OrBits(_, _, _)
OrBits(a, b, i) ==
    IF i > 7 THEN 0
    ELSE (IF Bit(a, i) = 1 \/ Bit(b, i) = 1 THEN 2 ^ i ELSE 0) + OrBits(a, b, i + 1)

\* a | b on u8
Or8(a, b) == OrBits(a, b, 0)

\* ------------------------------------------------------------------------
\* DnsFlags
\* ------------------------------------------------------------------------
DnsFlags_default ==
    [qr |-> 0, opcode |-> "Query", aa |-> 0, tc |-> 0, rd |-> 1,
     ra |-> 0, z |-> 0, ad |-> 0, cd |-> 0, rcode |-> "NoError"]

\* DnsFlags_from_bytes without the mask & 0b00000001 on the aa bit
DnsFlags_from_bytes_Unmasked(data, offset) ==
    IF ~InRange(data, offset) \/ ~InRange(data, offset + 1) THEN Panic
    ELSE LET b0 == At(data, offset)
             b1 == At(data, offset + 1)
         IN  Ok([qr     |-> b0 \div 128,
                 opcode |-> DnsOpcode_from_u8((b0 \div 8) % 16),
                 aa     |-> b0 \div 4,
                 tc     |-> Bit(b0, 1),
                 rd     |-> b0 % 2,
                 ra     |-> b1 \div 128,
                 z      |-> Bit(b1, 6),
                 ad     |-> Bit(b1, 5),
                 cd     |-> Bit(b1, 4),
                 rcode  |-> DnsRcode_from_u8(b1 % 16)])

DnsFlags_from_bytes(data, offset) ==
    IF ~InRange(data, offset) \/ ~InRange(data, offset + 1) THEN Panic
    ELSE LET b0 == At(data, offset)
             b1 == At(data, offset + 1)
         IN  Ok([qr     |-> b0 \div 128,
                 opcode |-> DnsOpcode_from_u8((b0 \div 8) % 16),
                 aa     |-> Bit(b0, 2),
                 tc     |-> Bit(b0, 1),
                 rd     |-> b0 % 2,
                 ra     |-> b1 \div 128,
                 z      |-> Bit(b1, 6),
                 ad     |-> Bit(b1, 5),
                 cd     |-> Bit(b1, 4),
                 rcode  |-> DnsRcode_from_u8(b1 % 16)])

DnsFlags_to_bytes(f) ==
    << Or8(Or8(Or8(Or8(Shl8(f.qr, 7), Shl8(DnsOpcode_to_u8(f.opcode), 3)),
                   Shl8(f.aa, 2)), Shl8(f.tc, 1)), f.rd),
       Or8(Or8(Or8(Or8(Shl8(f.ra, 7), Shl8(f.z, 6)),
                   Shl8(f.ad, 5)), Shl8(f.cd, 4)), DnsRcode_to_u8(f.rcode)) >>

\* ------------------------------------------------------------------------
\* DnsHeader
\* ------------------------------------------------------------------------
DnsHeader_default ==
    [id |-> 0, flags |-> DnsFlags_default,
     qdcount |-> 0, ancount |-> 0, nscount |-> 0, arcount |-> 0]

\* the flags are read by DnsFlags::from_bytes(data, 2), whatever the offset
DnsHeader_from_bytes(data, offset) ==
    IF ~InRange(data, offset) \/ ~InRange(data, offset + 1) THEN Panic
    ELSE LET flags == DnsFlags_from_bytes(data, 2)
         IN  IF flags.st # "ok" THEN flags
             ELSE IF \E k \in 4..11 : ~InRange(data, offset + k) THEN Panic
             ELSE Ok([id      |-> U16(At(data, offset), At(data, offset + 1)),
                      flags   |-> flags.val,
                      qdcount |-> U16(At(data, offset + 4), At(data, offset + 5)),
                      ancount |-> U16(At(data, offset + 6), At(data, offset + 7)),
                      nscount |-> U16(At(data, offset + 8), At(data, offset + 9)),
                      arcount |-> U16(At(data, offset + 10), At(data, offset + 11))])

DnsHeader_to_bytes(h) ==
    LET flags == DnsFlags_to_bytes(h.flags)
    IN  << (h.id \div 256) % 256, h.id % 256, flags[1], flags[2],
           (h.qdcount \div 256) % 256, h.qdcount % 256,
           (h.ancount \div 256) % 256, h.ancount % 256,
           (h.nscount \div 256) % 256, h.nscount % 256,
           (h.arcount \div 256) % 256, h.arcount % 256 >>

\* ------------------------------------------------------------------------
\* DnsName
\* ------------------------------------------------------------------------
\* the stack frames a decode may nest before the call stack is exhausted
MaxStack == 3

DnsName_default == [labels |-> <<>>, offset |-> 0, pointer |-> 0]

RECURSIVE SumLabels(_)
SumLabels(labels) ==
    IF labels = <<>> THEN 0 ELSE Len(Head(labels)) + 1 + SumLabels(Tail(labels))

DnsName_length(name) ==
    IF name.pointer # 0 THEN 2 ELSE SumLabels(name.labels) + 1

IsCont(b) == b \in 128..191

\* the bytes of the character that a lead byte starts, 0 when it starts none
Utf8Width(b) ==
    CASE b < 128 -> 1
      [] b \in 194..223 -> 2
      [] b \in 224..239 -> 3
      [] b \in 240..244 -> 4
      [] OTHER -> 0

\* String::from_utf8 accepts exactly the well-formed UTF-8 byte sequences:
\* every byte that is not a continuation byte starts a character of its width
Utf8Valid(bs) ==
    /\ bs # <<>> => ~IsCont(bs[1])
    /\ \A i \in 1..Len(bs) :
          \/ IsCont(bs[i])
          \/ LET b == bs[i]
                 w == Utf8Width(b)
             IN  /\ w > 0
                 /\ i + w - 1 <= Len(bs)
                 /\ \A k \in 1..(w - 1) : IsCont(bs[i + k])
                 /\ b = 224 => bs[i + 1] \in 160..191
                 /\ b = 237 => bs[i + 1] \in 128..159
                 /\ b = 240 => bs[i + 1] \in 144..191
                 /\ b = 244 => bs[i + 1] \in 128..143
                 /\ i + w <= Len(bs) => ~IsCont(bs[i + w])

\* String::from_utf8(label_bytes.to_vec()).unwrap_or_else(|_| "".to_string())
LabelOf(bytes) == IF Utf8Valid(bytes) THEN bytes ELSE <<>>

RECURSIVE NameLoop(_, _, _, _, _)
RECURSIVE DnsQuestion_from_bytes(_, _, _)

\* NamePointer without the comparison of the pointer with the question
\* name's offset: every pointer resolves to the question name
NamePointer_AnyTarget(data, index, name, depth) ==
    IF ~InRange(data, index + 1) THEN Panic
    ELSE LET pointer == U16(At(data, index) % 64, At(data, index + 1))
         IN  IF depth = 0 THEN Overflow
             ELSE LET question == DnsQuestion_from_bytes(data, 12, depth - 1)
                  IN  IF question.st # "ok" THEN question
                      ELSE Ok([name EXCEPT !.labels = question.val.qname.labels,
                                           !.pointer = pointer])

\* the pointer arm of the loop of DnsName::from_bytes: the question is decoded
\* again at offset 12 and the pointer is compared with its name's offset
NamePointer(data, index, name, depth) ==
    IF ~InRange(data, index + 1) THEN Panic
    ELSE LET pointer == U16(At(data, index) % 64, At(data, index + 1))
         IN  IF depth = 0 THEN Overflow
             ELSE LET question == DnsQuestion_from_bytes(data, 12, depth - 1)
                  IN  IF question.st # "ok" THEN question
                      ELSE IF question.val.qname.offset = pointer
                      THEN Ok([name EXCEPT !.labels = question.val.qname.labels,
                                           !.pointer = pointer])
                      ELSE Err

\* one turn of the loop of DnsName::from_bytes, reading the length byte at index
NameLoop(data, offset, index, name, depth) ==
    IF ~InRange(data, index) THEN Panic
    ELSE LET label_length == At(data, index)
             label_index == index + 1
         IN  IF label_length = 0 THEN Ok(name)
             ELSE IF label_length \div 64 = 3
             THEN NamePointer(data, index, name, depth)
             ELSE IF label_index + label_length > Len(data) THEN Panic
             ELSE NameLoop(data, offset, label_index + label_length,
                           [name EXCEPT
                              !.labels = Append(@,
                                  LabelOf(Slice(data, label_index,
                                                label_index + label_length))),
                              !.offset = offset % 65536],
                           depth)

DnsName_from_bytes(data, offset, depth) ==
    NameLoop(data, offset, offset, DnsName_default, depth)

\* DnsName_to_bytes without the null byte that ends an uncompressed name
DnsName_to_bytes_NoTerminator(name) ==
    IF name.pointer # 0
    THEN <<Or8(192, (name.pointer \div 256) % 256), name.pointer % 256>>
    ELSE Concat([i \in 1..Len(name.labels) |->
                    <<Len(name.labels[i]) % 256>> \o name.labels[i]])

DnsName_to_bytes(name) ==
    IF name.pointer # 0
    THEN <<Or8(192, (name.pointer \div 256) % 256), name.pointer % 256>>
    ELSE Concat([i \in 1..Len(name.labels) |->
                    <<Len(name.labels[i]) % 256>> \o name.labels[i]]) \o <<0>>

\* ------------------------------------------------------------------------
\* DnsQuestion
\* ------------------------------------------------------------------------
DnsQuestion_default ==
    [qname |-> DnsName_default, qtype |-> "A", qclass |-> "IN"]

\* the part of DnsQuestion::from_bytes after the name: qtype and qclass are
\* read at index = offset + name.length()
QuestionFields(data, name, index) ==
    IF \E k \in 0..3 : ~InRange(data, index + k) THEN Panic
    ELSE Ok([qname  |-> name,
             qtype  |-> DnsQType_from_u16(U16(At(data, index), At(data, index + 1))),
             qclass |-> DnsClass_from_u16(
                          U16(At(data, index + 2), At(data, index + 3)))])

QuestionAfterName(data, offset, name) ==
    IF name.st # "ok" THEN name
    ELSE QuestionFields(data, name.val, offset + DnsName_length(name.val))

DnsQuestion_from_bytes(data, offset, depth) ==
    QuestionAfterName(data, offset, DnsName_from_bytes(data, offset, depth))

DnsQuestion_to_bytes(q) ==
    DnsName_to_bytes(q.qname) \o DnsQType_to_bytes(q.qtype)
        \o DnsClass_to_bytes(q.qclass)

\* ------------------------------------------------------------------------
\* DnsResourceRecord
\* ------------------------------------------------------------------------
\* the part of DnsResourceRecord::from_bytes after the name: the fields are
\* read at index = offset + name.length(); a record of type 41 (OPT) takes
\* the rest of the buffer as its rdata
RecordFields(data, name, index, rtype, rdlength) ==
    IF ~InRange(data, index) \/ ~InRange(data, index + 1) THEN Panic
    ELSE IF rtype = 41
    THEN Ok([name     |-> name,
             rtype    |-> DnsQType_from_u16(rtype),
             rclass   |-> "IN",
             ttl      |-> 0,
             rdlength |-> ((Len(data) % 65536) - (index % 65536) - 2) % 65536,
             rdata    |-> Slice(data, index + 2, Len(data))])
    ELSE IF \E k \in 2..9 : ~InRange(data, index + k) THEN Panic
    ELSE IF index + 10 + rdlength > Len(data) THEN Panic
    ELSE Ok([name     |-> name,
             rtype    |-> DnsQType_from_u16(rtype),
             rclass   |-> DnsClass_from_u16(
                            U16(At(data, index + 2), At(data, index + 3))),
             ttl      |-> ((At(data, index + 4) * 256 + At(data, index + 5)) * 256
                              + At(data, index + 6)) * 256 + At(data, index + 7),
             rdlength |-> rdlength,
             rdata    |-> Slice(data, index + 10, index + 10 + rdlength)])

RecordAt(data, name, index) ==
    RecordFields(data, name, index,
                 U16(At(data, index), At(data, index + 1)),
                 U16(At(data, index + 8), At(data, index + 9)))

RecordAfterName(data, offset, name) ==
    IF name.st # "ok" THEN name
    ELSE RecordAt(data, name.val, offset + DnsName_length(name.val))

DnsResourceRecord_from_bytes(data, offset) ==
    RecordAfterName(data, offset, DnsName_from_bytes(data, offset, MaxStack))

DnsResourceRecord_to_bytes(rr) ==
    DnsName_to_bytes(rr.name) \o DnsQType_to_bytes(rr.rtype) \o
    (IF rr.rtype = "OPT" THEN rr.rdata
     ELSE DnsClass_to_bytes(rr.rclass) \o
          << (rr.ttl \div 16777216) % 256, (rr.ttl \div 65536) % 256,
             (rr.ttl \div 256) % 256, rr.ttl % 256,
             (rr.rdlength \div 256) % 256, rr.rdlength % 256 >> \o rr.rdata)

\* ------------------------------------------------------------------------
\* DnsRequest and DnsResponse
\* ------------------------------------------------------------------------
\* Option<Vec<DnsResourceRecord>>
None == [some |-> FALSE, list |-> <<>>]

Some(list) == [some |-> TRUE, list |-> list]

\* the loop over the announced records shared by the two message decoders:
\* count records are decoded from index on and pushed onto acc
RECURSIVE RecordLoop(_, _, _, _)

\* RecordPush without the push: the record decoded is not kept
RecordPush_NotKept(data, index, count, acc, record) ==
    IF record.st # "ok" THEN record
    ELSE RecordLoop(data,
                    index + DnsName_length(record.val.name) + 10
                          + record.val.rdlength,
                    count - 1, acc)

\* RecordPush without the ? on the record: the loop ends at a record that
\* fails to decode and the records before it are returned
RecordPush_PartialOnError(data, index, count, acc, record) ==
    IF record.st # "ok" THEN Ok(acc)
    ELSE RecordLoop(data,
                    index + DnsName_length(record.val.name) + 10
                          + record.val.rdlength,
                    count - 1, Append(acc, record.val))

\* the body of the loop once the record at index has been decoded
RecordPush(data, index, count, acc, record) ==
    IF record.st # "ok" THEN record
    ELSE RecordLoop(data,
                    index + DnsName_length(record.val.name) + 10
                          + record.val.rdlength,
                    count - 1, Append(acc, record.val))

RecordLoop(data, index, count, acc) ==
    IF count = 0 THEN Ok(acc)
    ELSE RecordPush(data, index, count, acc,
                    DnsResourceRecord_from_bytes(data, index))

\* the end of DnsRequest::from_bytes: the additional records are kept
RequestWith(header, question, additional) ==
    IF additional.st # "ok" THEN additional
    ELSE Ok([header |-> header, question |-> question,
             additional |-> Some(additional.val)])

\* DnsRequest::from_bytes once the header and the question are decoded
RequestAfterQuestion(data, offset, header, question) ==
    IF header.st # "ok" THEN header
    ELSE IF question.st # "ok" THEN question
    ELSE IF header.val.arcount > 0
    THEN RequestWith(header.val, question.val,
                     RecordLoop(data,
                                offset + 12 + DnsName_length(question.val.qname) + 4,
                                header.val.arcount, <<>>))
    ELSE Ok([header |-> header.val, question |-> question.val,
             additional |-> None])

DnsRequest_from_bytes(data, offset) ==
    RequestAfterQuestion(data, offset,
                         DnsHeader_from_bytes(data, offset),
                         DnsQuestion_from_bytes(data, offset + 12, MaxStack))

DnsRequest_to_bytes(m) ==
    DnsHeader_to_bytes(m.header) \o DnsQuestion_to_bytes(m.question) \o
    Concat([i \in 1..Len(m.additional.list) |->
               DnsResourceRecord_to_bytes(m.additional.list[i])])

DnsResponse_new ==
    [header |-> DnsHeader_default, question |-> DnsQuestion_default,
     answers |-> None]

\* DnsResponse_from_request without response.header.flags.rd = request's rd
\* and without response.header.flags.ra = 1
DnsResponse_from_request_DefaultFlags(request) ==
    [DnsResponse_new EXCEPT
       !.header.id = request.header.id,
       !.header.flags.qr = 1,
       !.header.qdcount = request.header.qdcount,
       !.header.ancount = 1,
       !.header.nscount = 0,
       !.header.arcount = 0,
       !.question = request.question,
       !.answers = Some(<< [name     |-> request.question.qname,
                            rtype    |-> request.question.qtype,
                            rclass   |-> request.question.qclass,
                            ttl      |-> 300,
                            rdlength |-> 4,
                            rdata    |-> <<127, 0, 0, 1>>] >>)]

DnsResponse_from_request(request) ==
    [DnsResponse_new EXCEPT
       !.header.id = request.header.id,
       !.header.flags.qr = 1,
       !.header.flags.rd = request.header.flags.rd,
       !.header.flags.ra = 1,
       !.header.qdcount = request.header.qdcount,
       !.header.ancount = 1,
       !.header.nscount = 0,
       !.header.arcount = 0,
       !.question = request.question,
       !.answers = Some(<< [name     |-> request.question.qname,
                            rtype    |-> request.question.qtype,
                            rclass   |-> request.question.qclass,
                            ttl      |-> 300,
                            rdlength |-> 4,
                            rdata    |-> <<127, 0, 0, 1>>] >>)]

\* the end of DnsResponse::from_bytes: answers stays None when the loop over
\* ancount pushed nothing
ResponseWith(header, question, answers) ==
    IF answers.st # "ok" THEN answers
    ELSE Ok([header |-> header, question |-> question,
             answers |-> IF header.ancount = 0 THEN None ELSE Some(answers.val)])

\* DnsResponse::from_bytes once the header and the question are decoded
ResponseAfterQuestion(data, offset, header, question) ==
    IF header.st # "ok" THEN header
    ELSE IF question.st # "ok" THEN question
    ELSE ResponseWith(header.val, question.val,
                      RecordLoop(data,
                                 offset + 12 + DnsName_length(question.val.qname) + 4,
                                 header.val.ancount, <<>>))

DnsResponse_from_bytes(data, offset) ==
    ResponseAfterQuestion(data, offset,
                          DnsHeader_from_bytes(data, offset),
                          DnsQuestion_from_bytes(data, offset + 12, MaxStack))

DnsResponse_to_bytes(m) ==
    DnsHeader_to_bytes(m.header) \o DnsQuestion_to_bytes(m.question) \o
    Concat([i \in 1..Len(m.answers.list) |->
               DnsResourceRecord_to_bytes(m.answers.list[i])])

\* ------------------------------------------------------------------------
\* Inputs: byte buffers
\* ------------------------------------------------------------------------
\* the bytes before the header when a decode is called at an offset above 0
MaxPad == 2

Prefixes(buf) == {SubSeq(buf, 1, n) : n \in 0..Len(buf)}

Hdr(id, f0, f1, qd, an, ns, ar) ==
    << id \div 256, id % 256, f0, f1, 0, qd, 0, an, 0, ns, 0, ar >>

\* the request of tests::decode_request: mycelnet.tech A IN, one OPT record
ScenarioA ==
    << 65, 70, 1, 32, 0, 1, 0, 0, 0, 0, 0, 1,
       8, 109, 121, 99, 101, 108, 110, 101, 116, 4, 116, 101, 99, 104, 0,
       0, 1, 0, 1,
       0, 0, 41, 4, 208, 0, 0, 0, 0, 0, 12, 0, 10, 0, 8,
       49, 185, 178, 56, 1, 186, 26, 254 >>

\* the response of tests::decode_response: two A records named by c0 0c
ScenarioB ==
    << 68, 111, 129, 128, 0, 1, 0, 2, 0, 0, 0, 1,
       8, 109, 121, 99, 101, 108, 110, 101, 116, 4, 116, 101, 99, 104, 0,
       0, 1, 0, 1,
       192, 12, 0, 1, 0, 1, 0, 0, 0, 30, 0, 4, 104, 21, 35, 146,
       192, 12, 0, 1, 0, 1, 0, 0, 0, 30, 0, 4, 172, 67, 176, 182 >>

\* the 12 bytes of tests::decode_header
HeaderB == SubSeq(ScenarioB, 1, 12)

\* every value of each flags byte, the other byte held fixed
FlagPairs ==
    {<<f0, 0>> : f0 \in 0..255} \cup {<<1, f1>> : f1 \in 0..255}
        \cup {<<129, 128>>, <<255, 255>>}

\* two flags bytes at offset 0 and behind 1..MaxPad bytes, and buffers that
\* end before the second flags byte
FlagCalls ==
    {<<p, 0>> : p \in FlagPairs \cup {<<b, 255 - b>> : b \in 0..255}}
        \cup {<<SubSeq(<<7, 9, 11, 13, 15, 17>>, 1, n) \o p, n>> :
                 n \in 1..MaxPad, p \in {<<129, 128>>, <<255, 255>>, <<0, 0>>}}
        \cup {<<<<>>, 0>>, <<<<129>>, 0>>, <<<<129, 128>>, 1>>}

HeaderBufs ==
    {Hdr(16710, p[1], p[2], 1, 0, 0, 0) : p \in FlagPairs}
        \cup {Hdr(id, 1, 32, c, 0, c, 1) : id \in {0, 255, 256, 65535}, c \in {0, 1, 255}}
        \cup {HeaderB}

\* buffers for a header decode at an offset: whole headers behind 0..MaxPad
\* bytes, and every truncation of a header
HeaderCalls ==
    {<<b, 0>> : b \in HeaderBufs}
        \cup {<<pad \o b, Len(pad)>> :
                 pad \in {SubSeq(<<7, 9, 11, 13, 15, 17>>, 1, n) : n \in 1..MaxPad},
                 b \in {HeaderB, Hdr(16710, 1, 32, 1, 0, 0, 1), Hdr(0, 0, 0, 0, 0, 0, 0)}}
        \cup {<<b, k>> : b \in Prefixes(HeaderB), k \in 0..MaxPad}

\* uncompressed names, as bytes
NameRoot == <<0>>

NameAbC == <<2, 97, 98, 1, 99, 0>>

\* a label whose bytes are not UTF-8
NameBadUtf8 == <<2, 195, 40, 0>>

\* a length byte of 64 followed by 64 bytes and the terminator
NameLong == <<64>> \o [i \in 1..64 |-> 97] \o <<0>>

\* a length byte of 0x80 followed by 128 bytes and the terminator
NameLonger == <<128>> \o [i \in 1..128 |-> 97] \o <<0>>

Ptr(p) == <<192 + (p \div 256), p % 256>>

\* a record of type A, class IN, ttl 30, with 4 bytes of rdata
RecA(name) == name \o <<0, 1, 0, 1, 0, 0, 0, 30, 0, 4, 10, 0, 0, 1>>

\* an OPT record as in tests::decode_request, without its option
RecOpt == <<0, 0, 41, 4, 208, 0, 0, 0, 0, 0, 0>>

Msg(f0, f1, an, ar, qname, qtype, qclass, records) ==
    Hdr(16710, f0, f1, 1, an, 0, ar) \o qname \o <<0, qtype, 0, qclass>> \o records

\* well-formed requests: a header, one question with an uncompressed name and
\* the additional records the header announces, the last of which may be OPT
WellFormedRequests ==
    {ScenarioA}
        \cup {Msg(f0, 32, 0, 0, qn, 1, 1, <<>>) :
                 f0 \in {0, 1, 8, 56, 64, 120}, qn \in {NameRoot, NameAbC}}
        \cup {Msg(1, 0, 0, 0, NameAbC, qt, qc, <<>>) :
                 qt \in {1, 28, 41, 54, 65, 255}, qc \in {1, 3, 5, 255}}
        \cup {Msg(1, 0, 0, 1, NameAbC, 1, 1, r) :
                 r \in {RecOpt, RecA(Ptr(12)), RecA(NameAbC), RecA(NameRoot)}}
        \cup {Msg(1, 0, 0, 2, NameAbC, 1, 1, RecA(Ptr(12)) \o RecOpt)}

\* well-formed responses: the answers the header announces, then the
\* additional records it announces, the last of which may be OPT
WellFormedResponses ==
    {Msg(129, 128, 2, 0, SubSeq(ScenarioB, 13, 27), 1, 1, SubSeq(ScenarioB, 32, 63))}
        \cup {Msg(129, f1, 0, 0, NameAbC, 1, 1, <<>>) : f1 \in {128, 131, 138, 139, 143}}
        \cup {Msg(129, 128, 1, 0, qn, qt, 1, RecA(n)) :
                 qn \in {NameAbC}, qt \in {1, 54}, n \in {Ptr(12), NameAbC, NameRoot}}
        \cup {Msg(129, 128, 2, 0, NameAbC, 1, 1, RecA(Ptr(12)) \o RecA(NameAbC))}
        \cup {Msg(129, 128, 1, 1, NameAbC, 1, 1, RecA(Ptr(12)) \o RecOpt)}

\* messages that are not well formed: names that are or hold a pointer in the
\* question, pointers to other offsets than the question name's, length bytes
\* above 63, labels that are not UTF-8, counts above the records present
OddMessages ==
    {Msg(1, 0, 0, 0, qn, 1, 1, <<>>) :
        qn \in {Ptr(12), Ptr(0), <<1, 97>> \o Ptr(12), NameBadUtf8, NameLong,
                NameLonger, <<64, 97, 0>>, <<191>>}}
        \cup {Msg(129, 128, 1, 0, qn, 1, 1, RecA(n)) :
                 qn \in {NameRoot, NameAbC},
                 n \in {Ptr(0), Ptr(12), Ptr(13), Ptr(16383), <<1, 97>> \o Ptr(12),
                        NameLong, NameBadUtf8, <<255>>}}
        \cup {Msg(129, 128, 2, 1, NameAbC, 1, 1, RecA(Ptr(12))),
              Msg(1, 0, 0, 2, NameAbC, 1, 1, RecOpt),
              Msg(1, 0, 0, 1, NameBadUtf8, 1, 1, RecOpt),
              Msg(129, 128, 2, 0, NameAbC, 1, 1, RecA(Ptr(12)) \o RecA(Ptr(13))),
              Msg(1, 0, 0, 2, NameAbC, 1, 1, RecA(NameAbC) \o RecA(Ptr(13))),
              ScenarioB}

\* every truncation of the two test messages
Truncated == Prefixes(ScenarioA) \cup Prefixes(ScenarioB)

MessageBufs ==
    WellFormedRequests \cup WellFormedResponses \cup OddMessages \cup Truncated

\* buffers and offsets for a name decode: each byte position of messages that
\* hold the kinds of name above
NameCalls ==
    {<<b, k>> :
        b \in {m \in WellFormedResponses \cup OddMessages : Len(m) < 60},
        k \in 12..40}
        \cup {<<b, 12>> : b \in OddMessages}
        \cup {<<b, 0>> : b \in {NameRoot, NameAbC, NameBadUtf8, NameLong,
                                Ptr(12), <<192>>, <<5, 97>>, <<>>}}

\* buffers and offsets for a question decode: the question of each message,
\* single questions at offset 0 and every truncation of a question
QuestionCalls ==
    {<<b, 12>> : b \in WellFormedRequests \cup OddMessages}
        \cup {<<n \o <<0, t, 0, c>>, 0>> :
                 n \in {NameRoot, NameAbC, NameBadUtf8, NameLong, <<1, 97, 2, 195, 40, 0>>},
                 t \in {1, 28, 255}, c \in {1, 255}}
        \cup {<<b, 0>> : b \in Prefixes(NameAbC \o <<0, 1, 0, 1>>)}

\* a record of type A whose rdlength field declares n bytes, followed by rdata
RecWith(name, n, rdata) == name \o <<0, 1, 0, 1, 0, 0, 0, 30, n \div 256, n % 256>> \o rdata

\* an OPT record with one option, as in tests::decode_request
RecOptCookie == SubSeq(ScenarioA, 32, 54)

\* (the ttl bytes of every record below start with a byte under 0x80, so that
\* the u32 ttl stays within the integers TLC computes with)
\* buffers and offsets for a record decode: the messages above at the offsets
\* where their records start, single records at offset 0, every truncation of
\* a record, and records whose rdlength differs from the bytes that follow it
RecordCalls ==
    {<<Msg(129, 128, 1, 0, qn, 1, 1, r), 12 + Len(qn) + 4>> :
        qn \in {NameRoot, NameAbC, NameBadUtf8},
        r \in {RecA(Ptr(12)), RecA(Ptr(0)), RecA(Ptr(13)), RecA(NameAbC),
               RecA(NameRoot), RecA(NameBadUtf8), RecA(<<1, 97>> \o Ptr(12)),
               RecOpt, Ptr(12) \o Tail(RecOptCookie)}}
        \cup {<<ScenarioA, 31>>, <<ScenarioB, 31>>, <<ScenarioB, 47>>}
        \cup {<<b, 0>> : b \in Prefixes(RecA(NameAbC)) \cup Prefixes(RecOptCookie)}
        \cup {<<RecWith(n, l, d), 0>> :
                 n \in {NameRoot, NameAbC},
                 l \in {0, 1, 4, 5, 255, 256, 65535},
                 d \in {<<>>, <<10>>, <<10, 0, 0, 1>>, <<10, 0, 0, 1, 7>>}}
        \cup {<<n \o <<0, 41>> \o d, 0>> :
                 n \in {NameRoot, NameAbC, NameBadUtf8},
                 d \in {<<>>, <<4>>, SubSeq(RecOptCookie, 4, 23)}}

\* ------------------------------------------------------------------------
\* Inputs: numeric codes
\* ------------------------------------------------------------------------
\* 16-bit codes: the low codes, the codes around each range boundary of the
\* tables above, and codes above 12 bits whose low 12 bits name a variant
Codes16 ==
    (0..300) \cup (3830..3850) \cup (4085..4130) \cup (8180..8220)
        \cup (32760..32780) \cup (65270..65290) \cup (65520..65535)

Codes8 == 0..255

\* ------------------------------------------------------------------------
\* Inputs: message values
\* ------------------------------------------------------------------------
\* the name ab.c as the question decoder records it at offset 12
QNameAbC == [labels |-> <<<<97, 98>>, <<99>>>>, offset |-> 12, pointer |-> 0]

\* a record name that is a pointer to the question name
PtrNameAbC == [labels |-> <<<<97, 98>>, <<99>>>>, offset |-> 0, pointer |-> 12]

RrA(name) ==
    [name |-> name, rtype |-> "A", rclass |-> "IN", ttl |-> 30,
     rdlength |-> 4, rdata |-> <<10, 0, 0, 1>>]

BaseHeader ==
    [DnsHeader_default EXCEPT !.id = 16710, !.qdcount = 1]

BaseQuestion == [qname |-> QNameAbC, qtype |-> "A", qclass |-> "IN"]

\* valid headers and questions: each field in turn takes every value it may
ValidHeaders ==
    {[BaseHeader EXCEPT !.flags.opcode = o] : o \in DnsOpcodeVariants}
        \cup {[BaseHeader EXCEPT !.flags.rcode = r] : r \in DnsRcodeVariants}
        \cup {[BaseHeader EXCEPT !.flags.qr = b[1], !.flags.aa = b[2],
                                 !.flags.tc = b[3], !.flags.rd = b[4]] :
                 b \in {<<0, 0, 0, 0>>, <<1, 0, 0, 1>>, <<1, 1, 1, 1>>}}
        \cup {[BaseHeader EXCEPT !.flags.ra = b[1], !.flags.z = b[2],
                                 !.flags.ad = b[3], !.flags.cd = b[4]] :
                 b \in {<<1, 0, 0, 0>>, <<0, 1, 0, 0>>, <<0, 0, 1, 1>>}}
        \cup {[BaseHeader EXCEPT !.id = i] : i \in {0, 65535}}

ValidQuestions ==
    {[BaseQuestion EXCEPT !.qtype = t] : t \in DnsQTypeVariants}
        \cup {[BaseQuestion EXCEPT !.qclass = c] : c \in DnsClassVariants}
        \cup {[BaseQuestion EXCEPT !.qname = DnsName_default]}

\* flags values: those of the valid headers and those decoded from two bytes
ValidFlags ==
    {h.flags : h \in ValidHeaders}
        \cup {DnsFlags_from_bytes(p, 0).val : p \in FlagPairs}

\* name values: no label, labels of 0, 1, 63, 64 and 300 bytes, pointers of
\* one and two bytes, and the names decoded from the buffers above
NameValues ==
    {[labels |-> l, offset |-> o, pointer |-> p] :
        l \in {<<>>, <<<<97, 98>>, <<99>>>>, <<<<>>>>, <<<<97>>, <<>>, <<98>>>>,
               <<[i \in 1..63 |-> 97]>>, <<[i \in 1..64 |-> 97], <<98>>>>,
               <<[i \in 1..300 |-> 97]>>},
        o \in {0, 12},
        p \in {0, 1, 12, 255, 256, 16383, 65535}}
        \cup {DnsName_from_bytes(c[1], c[2], MaxStack).val :
                 c \in {d \in NameCalls :
                           DnsName_from_bytes(d[1], d[2], MaxStack).st = "ok"}}

RecordLists == {<<RrA(PtrNameAbC)>>, <<RrA(PtrNameAbC), RrA(QNameAbC)>>}

ValidRequests ==
    {[header |-> h, question |-> BaseQuestion, additional |-> None] :
        h \in ValidHeaders}
        \cup {[header |-> BaseHeader, question |-> q, additional |-> None] :
                 q \in ValidQuestions}
        \cup {[header |-> [BaseHeader EXCEPT !.arcount = Len(l)],
               question |-> BaseQuestion, additional |-> Some(l)] :
                 l \in RecordLists}

ValidResponses ==
    {[header |-> [h EXCEPT !.flags.qr = 1], question |-> BaseQuestion,
      answers |-> None] : h \in ValidHeaders}
        \cup {[header |-> BaseHeader, question |-> q, answers |-> None] :
                 q \in ValidQuestions}
        \cup {[header |-> [BaseHeader EXCEPT !.ancount = Len(l)],
               question |-> BaseQuestion, answers |-> Some(l)] :
                 l \in RecordLists}

\* the requests a response is built from: the valid requests and every
\* request that decodes from a message buffer
DecodedRequests ==
    {DnsRequest_from_bytes(b, 0).val :
        b \in {d \in MessageBufs : DnsRequest_from_bytes(d, 0).st = "ok"}}

RequestValues == ValidRequests \cup DecodedRequests

\* ------------------------------------------------------------------------
\* State
\* ------------------------------------------------------------------------
VARIABLES
    call,       \* the codec function a caller has applied, "none" between calls
    data,       \* the buffer it was applied to
    offset,     \* the offset it was applied at
    value,      \* the value it was applied to (the encoders)
    out,        \* what it returned
    worker,     \* the worker task of main: "select", "send", "stopped", "panicked"
    stop,       \* the watch channel holds a stop notification not yet seen
    buf,        \* the datagram last received by handle_request
    request,    \* the result of its decode
    response,   \* the response built from the decoded request
    handled,    \* how handle_request ended for it: "none", "sent", "dropped"
    reply,      \* the serialized response handed to send_to
    main        \* "running", or how main returned: "ok", "err"

codecVars == <<call, data, offset, value, out>>

serviceVars == <<worker, stop, buf, request, response, handled, reply, main>>

vars ==
    <<call, data, offset, value, out, worker, stop, buf, request, response, handled, reply, main>>

NoValue == [none |-> TRUE]

Init ==
    /\ call = "none"
    /\ data = <<>>
    /\ offset = 0
    /\ value = NoValue
    /\ out = NoValue
    /\ worker = "select"
    /\ stop = FALSE
    /\ buf = <<>>
    /\ request = NoValue
    /\ response = NoValue
    /\ handled = "none"
    /\ reply = <<>>
    /\ main = "running"

\* ------------------------------------------------------------------------
\* The codec, applied by a caller to one input at a time
\* ------------------------------------------------------------------------
\* the conversions between the enumerations and their numeric codes
OpcodeFromU8 ==
    \E n \in Codes8 :
        /\ call = "none"
        /\ call' = "DnsOpcode::from_u8"
        /\ value' = n
        /\ out' = Ok(DnsOpcode_from_u8(n))
        /\ UNCHANGED <<data, offset>>
        /\ UNCHANGED serviceVars

OpcodeToU8 ==
    \E v \in DnsOpcodeVariants :
        /\ call = "none"
        /\ call' = "DnsOpcode::to_u8"
        /\ value' = v
        /\ out' = Ok(DnsOpcode_to_u8(v))
        /\ UNCHANGED <<data, offset>>
        /\ UNCHANGED serviceVars

RcodeFromU8 ==
    \E n \in Codes8 :
        /\ call = "none"
        /\ call' = "DnsRcode::from_u8"
        /\ value' = n
        /\ out' = Ok(DnsRcode_from_u8(n))
        /\ UNCHANGED <<data, offset>>
        /\ UNCHANGED serviceVars

RcodeFromU16 ==
    \E n \in Codes16 :
        /\ call = "none"
        /\ call' = "DnsRcode::from_u16"
        /\ value' = n
        /\ out' = Ok(DnsRcode_from_u16(n))
        /\ UNCHANGED <<data, offset>>
        /\ UNCHANGED serviceVars

RcodeToU8 ==
    \E v \in DnsRcodeVariants :
        /\ call = "none"
        /\ call' = "DnsRcode::to_u8"
        /\ value' = v
        /\ out' = Ok(DnsRcode_to_u8(v))
        /\ UNCHANGED <<data, offset>>
        /\ UNCHANGED serviceVars

RcodeToU16 ==
    \E v \in DnsRcodeVariants :
        /\ call = "none"
        /\ call' = "DnsRcode::to_u16"
        /\ value' = v
        /\ out' = Ok(DnsRcode_to_u16(v))
        /\ UNCHANGED <<data, offset>>
        /\ UNCHANGED serviceVars

QTypeFromU16 ==
    \E n \in Codes16 :
        /\ call = "none"
        /\ call' = "DnsQType::from_u16"
        /\ value' = n
        /\ out' = Ok(DnsQType_from_u16(n))
        /\ UNCHANGED <<data, offset>>
        /\ UNCHANGED serviceVars

QTypeToU16 ==
    \E v \in DnsQTypeVariants :
        /\ call = "none"
        /\ call' = "DnsQType::to_u16"
        /\ value' = v
        /\ out' = Ok(DnsQType_to_u16(v))
        /\ UNCHANGED <<data, offset>>
        /\ UNCHANGED serviceVars

ClassFromU16 ==
    \E n \in Codes16 :
        /\ call = "none"
        /\ call' = "DnsClass::from_u16"
        /\ value' = n
        /\ out' = Ok(DnsClass_from_u16(n))
        /\ UNCHANGED <<data, offset>>
        /\ UNCHANGED serviceVars

ClassToU16 ==
    \E v \in DnsClassVariants :
        /\ call = "none"
        /\ call' = "DnsClass::to_u16"
        /\ value' = v
        /\ out' = Ok(DnsClass_to_u16(v))
        /\ UNCHANGED <<data, offset>>
        /\ UNCHANGED serviceVars

FlagsFromBytes ==
    \E c \in FlagCalls :
        /\ call = "none"
        /\ call' = "DnsFlags::from_bytes"
        /\ data' = c[1]
        /\ offset' = c[2]
        /\ out' = DnsFlags_from_bytes(c[1], c[2])
        /\ UNCHANGED value
        /\ UNCHANGED serviceVars

HeaderFromBytes ==
    \E c \in HeaderCalls :
        /\ call = "none"
        /\ call' = "DnsHeader::from_bytes"
        /\ data' = c[1]
        /\ offset' = c[2]
        /\ out' = DnsHeader_from_bytes(c[1], c[2])
        /\ UNCHANGED value
        /\ UNCHANGED serviceVars

NameFromBytes ==
    \E c \in NameCalls :
        /\ call = "none"
        /\ call' = "DnsName::from_bytes"
        /\ data' = c[1]
        /\ offset' = c[2]
        /\ out' = DnsName_from_bytes(c[1], c[2], MaxStack)
        /\ UNCHANGED value
        /\ UNCHANGED serviceVars

QuestionFromBytes ==
    \E c \in QuestionCalls :
        /\ call = "none"
        /\ call' = "DnsQuestion::from_bytes"
        /\ data' = c[1]
        /\ offset' = c[2]
        /\ out' = DnsQuestion_from_bytes(c[1], c[2], MaxStack)
        /\ UNCHANGED value
        /\ UNCHANGED serviceVars

RecordFromBytes ==
    \E c \in RecordCalls :
        /\ call = "none"
        /\ call' = "DnsResourceRecord::from_bytes"
        /\ data' = c[1]
        /\ offset' = c[2]
        /\ out' = DnsResourceRecord_from_bytes(c[1], c[2])
        /\ UNCHANGED value
        /\ UNCHANGED serviceVars

RequestFromBytes ==
    \E b \in MessageBufs :
        /\ call = "none"
        /\ call' = "DnsRequest::from_bytes"
        /\ data' = b
        /\ offset' = 0
        /\ out' = DnsRequest_from_bytes(b, 0)
        /\ UNCHANGED value
        /\ UNCHANGED serviceVars

ResponseFromBytes ==
    \E b \in MessageBufs :
        /\ call = "none"
        /\ call' = "DnsResponse::from_bytes"
        /\ data' = b
        /\ offset' = 0
        /\ out' = DnsResponse_from_bytes(b, 0)
        /\ UNCHANGED value
        /\ UNCHANGED serviceVars

NameToBytes ==
    \E n \in NameValues :
        /\ call = "none"
        /\ call' = "DnsName::to_bytes"
        /\ value' = n
        /\ out' = Ok(DnsName_to_bytes(n))
        /\ UNCHANGED <<data, offset>>
        /\ UNCHANGED serviceVars

FlagsToBytes ==
    \E f \in ValidFlags :
        /\ call = "none"
        /\ call' = "DnsFlags::to_bytes"
        /\ value' = f
        /\ out' = Ok(DnsFlags_to_bytes(f))
        /\ UNCHANGED <<data, offset>>
        /\ UNCHANGED serviceVars

HeaderToBytes ==
    \E h \in ValidHeaders :
        /\ call = "none"
        /\ call' = "DnsHeader::to_bytes"
        /\ value' = h
        /\ out' = Ok(DnsHeader_to_bytes(h))
        /\ UNCHANGED <<data, offset>>
        /\ UNCHANGED serviceVars

RequestToBytes ==
    \E m \in ValidRequests :
        /\ call = "none"
        /\ call' = "DnsRequest::to_bytes"
        /\ value' = m
        /\ out' = Ok(DnsRequest_to_bytes(m))
        /\ UNCHANGED <<data, offset>>
        /\ UNCHANGED serviceVars

ResponseToBytes ==
    \E m \in ValidResponses :
        /\ call = "none"
        /\ call' = "DnsResponse::to_bytes"
        /\ value' = m
        /\ out' = Ok(DnsResponse_to_bytes(m))
        /\ UNCHANGED <<data, offset>>
        /\ UNCHANGED serviceVars

\* the request is borrowed (&DnsRequest): the caller keeps it as it was
ResponseFromRequest ==
    \E r \in RequestValues :
        /\ call = "none"
        /\ call' = "DnsResponse::from_request"
        /\ value' = r
        /\ out' = Ok(DnsResponse_from_request(r))
        /\ UNCHANGED <<data, offset>>
        /\ UNCHANGED serviceVars

\* the caller drops the result
Return ==
    /\ call # "none"
    /\ call' = "none"
    /\ data' = <<>>
    /\ offset' = 0
    /\ value' = NoValue
    /\ out' = NoValue
    /\ UNCHANGED serviceVars

Next ==
    \/ OpcodeFromU8
    \/ OpcodeToU8
    \/ RcodeFromU8
    \/ RcodeFromU16
    \/ RcodeToU8
    \/ RcodeToU16
    \/ QTypeFromU16
    \/ QTypeToU16
    \/ ClassFromU16
    \/ ClassToU16
    \/ FlagsFromBytes
    \/ HeaderFromBytes
    \/ NameFromBytes
    \/ QuestionFromBytes
    \/ RecordFromBytes
    \/ RequestFromBytes
    \/ ResponseFromBytes
    \/ NameToBytes
    \/ FlagsToBytes
    \/ HeaderToBytes
    \/ RequestToBytes
    \/ ResponseToBytes
    \/ ResponseFromRequest
    \/ Return

Spec == Init /\ [][Next]_vars

\* ------------------------------------------------------------------------
\* The service: main and handle_request
\* ------------------------------------------------------------------------
\* the datagrams a client may send
Datagrams == MessageBufs

\* the signal task forwards SIGTERM or SIGINT to the worker
Signal ==
    /\ main = "running"
    /\ ~stop
    /\ stop' = TRUE
    /\ UNCHANGED <<worker, buf, request, response, handled, reply, main>>
    /\ UNCHANGED codecVars

\* the biased select! takes the stop branch first; a pending handle_request
\* is dropped with it
ObserveStop ==
    /\ worker \in {"select", "send"}
    /\ stop
    /\ worker' = "stopped"
    /\ stop' = FALSE
    /\ UNCHANGED <<buf, request, response, handled, reply, main>>
    /\ UNCHANGED codecVars

\* handle_request up to send_to: recv_from yields a datagram, which is decoded;
\* a response is built and serialized for send_to, or the Err is logged and
\* returned (the select! arm ignores it), or the panic ends the worker task
HandleRequest ==
    \E d \in Datagrams :
    /\ worker = "select"
    /\ ~stop
    /\ buf' = d
    /\ request' = DnsRequest_from_bytes(d, 0)
    /\ response' = IF request'.st = "ok"
                   THEN DnsResponse_from_request(request'.val)
                   ELSE NoValue
    /\ reply' = IF request'.st = "ok" THEN DnsResponse_to_bytes(response') ELSE <<>>
    /\ handled' = IF request'.st = "err" THEN "dropped" ELSE "none"
    /\ worker' = CASE request'.st = "ok" -> "send"
                   [] request'.st = "err" -> "select"
                   [] OTHER -> "panicked"
    /\ UNCHANGED <<stop, main>>
    /\ UNCHANGED codecVars

\* send_to completes and handle_request returns Ok
SendReply ==
    /\ worker = "send"
    /\ ~stop
    /\ handled' = "sent"
    /\ worker' = "select"
    /\ UNCHANGED <<stop, buf, request, response, reply, main>>
    /\ UNCHANGED codecVars

\* worker.await??: main returns when the worker task has ended
MainReturns ==
    /\ main = "running"
    /\ worker \in {"stopped", "panicked"}
    /\ main' = IF worker = "stopped" THEN "ok" ELSE "err"
    /\ UNCHANGED <<worker, stop, buf, request, response, handled, reply>>
    /\ UNCHANGED codecVars

NextService ==
    \/ Signal
    \/ ObserveStop
    \/ HandleRequest
    \/ SendReply
    \/ MainReturns

SpecService == Init /\ [][NextService]_vars

\* the runtime polls a task that can make progress: the worker's select! sees
\* a pending stop notification, and main is woken when the worker has ended
SpecServiceFair ==
    SpecService /\ WF_vars(ObserveStop) /\ WF_vars(MainReturns)

\* ------------------------------------------------------------------------
\* Properties
\* ------------------------------------------------------------------------
IsMessageDecode == call \in {"DnsRequest::from_bytes", "DnsResponse::from_bytes"}

IsNameDecode == call = "DnsName::from_bytes"

IsHeaderDecode == call = "DnsHeader::from_bytes"

IsQuestionDecode == call = "DnsQuestion::from_bytes"

IsRecordDecode == call = "DnsResourceRecord::from_bytes"

\* the 14-bit value of the pointer whose first byte is at index i
PointerAt(buffer, i) == U16(At(buffer, i) % 64, At(buffer, i + 1))

\* two names agree on their labels and on their pointer
SameName(a, b) == a.labels = b.labels /\ a.pointer = b.pointer

SameRecord(a, b) ==
    /\ SameName(a.name, b.name)
    /\ a.rtype = b.rtype
    /\ a.rclass = b.rclass
    /\ a.ttl = b.ttl
    /\ a.rdlength = b.rdlength
    /\ a.rdata = b.rdata

SameRecords(a, b) ==
    /\ a.some = b.some
    /\ Len(a.list) = Len(b.list)
    /\ \A i \in 1..Len(a.list) : SameRecord(a.list[i], b.list[i])

SameQuestion(a, b) ==
    SameName(a.qname, b.qname) /\ a.qtype = b.qtype /\ a.qclass = b.qclass

\* C1: encoding the message decoded from a well-formed buffer gives back the
\* buffer, for requests and for responses.
C1_EncodeOfDecodeIsBuffer ==
    /\ (call = "DnsRequest::from_bytes" /\ data \in WellFormedRequests)
          => (out.st = "ok" /\ DnsRequest_to_bytes(out.val) = data)
    /\ (call = "DnsResponse::from_bytes" /\ data \in WellFormedResponses)
          => (out.st = "ok" /\ DnsResponse_to_bytes(out.val) = data)

\* C2: decoding the bytes a valid message encodes to gives back the message,
\* field by field (the header, the question and each record).
C2_DecodeOfEncodeIsMessage ==
    /\ call = "DnsRequest::to_bytes" =>
          LET m == DnsRequest_from_bytes(out.val, 0)
          IN  /\ m.st = "ok"
              /\ m.val.header = value.header
              /\ SameQuestion(m.val.question, value.question)
              /\ SameRecords(m.val.additional, value.additional)
    /\ call = "DnsResponse::to_bytes" =>
          LET m == DnsResponse_from_bytes(out.val, 0)
          IN  /\ m.st = "ok"
              /\ m.val.header = value.header
              /\ SameQuestion(m.val.question, value.question)
              /\ SameRecords(m.val.answers, value.answers)

\* C3: no datagram ends the worker task: whatever is received, the worker is
\* never left panicked and main never returns an error.
C3_NoDatagramStopsService == worker # "panicked" /\ main # "err"

\* C4: the decode of a request or a response from any buffer returns: its
\* recursion through the question at offset 12 comes to an end.
C4_MessageDecodeTerminates == IsMessageDecode => out.st # "overflow"

\* the records a decoded message holds: the additional records of a request,
\* the answers of a response
RecordsOf(m) == IF call = "DnsRequest::from_bytes" THEN m.additional ELSE m.answers

\* the count of the header that announces them
AnnouncedIn(h) == IF call = "DnsRequest::from_bytes" THEN h.arcount ELSE h.ancount

\* C5: a name that is a pointer, in a buffer whose question decodes, decodes
\* to the question name's labels when the pointer equals the question name's
\* recorded offset and is an error otherwise; a message whose first record
\* is named by a pointer to another offset fails to decode.
C5_PointerResolvesToQuestion ==
    /\ (/\ IsNameDecode
        /\ InRange(data, offset + 1)
        /\ At(data, offset) >= 192
        /\ DnsQuestion_from_bytes(data, 12, MaxStack).st = "ok")
          => LET qname == DnsQuestion_from_bytes(data, 12, MaxStack).val.qname
             IN  IF PointerAt(data, offset) = qname.offset
                 THEN out.st = "ok" /\ out.val.labels = qname.labels
                 ELSE out.st = "err"
    /\ (/\ IsMessageDecode
        /\ DnsHeader_from_bytes(data, 0).st = "ok"
        /\ AnnouncedIn(DnsHeader_from_bytes(data, 0).val) > 0
        /\ DnsQuestion_from_bytes(data, 12, MaxStack).st = "ok")
          => LET qname == DnsQuestion_from_bytes(data, 12, MaxStack).val.qname
                 first == 12 + DnsName_length(qname) + 4
             IN  (InRange(data, first + 1) /\ At(data, first) >= 192)
                    => IF PointerAt(data, first) = qname.offset
                       THEN out.st = "ok" =>
                               RecordsOf(out.val).list[1].name.labels
                                   = out.val.question.qname.labels
                       ELSE out.st = "err"

\* a record name c0 0c has been decoded to the labels of the question ab.c
C5_Witness ==
    /\ IsNameDecode
    /\ InRange(data, offset + 1)
    /\ At(data, offset) = 192
    /\ PointerAt(data, offset) = 12
    /\ out.st = "ok"
    /\ out.val.labels = <<<<97, 98>>, <<99>>>>

\* C6: a name decoded from a length byte in 0xC0..0xFF is marked as a pointer,
\* has length 2 and encodes to the two pointer bytes it was decoded from.
C6_PointerByteMarksName ==
    (IsNameDecode /\ InRange(data, offset) /\ At(data, offset) >= 192
        /\ out.st = "ok")
      => /\ out.val.pointer # 0
         /\ DnsName_length(out.val) = 2
         /\ DnsName_to_bytes(out.val) = <<At(data, offset), At(data, offset + 1)>>

\* C7: no label of a decoded name has more than 63 bytes, and a name whose
\* first length byte is in 64..191 does not decode.
C7_LengthByteAbove63Fails ==
    (IsNameDecode /\ out.st = "ok")
      => /\ \A i \in 1..Len(out.val.labels) : Len(out.val.labels[i]) <= 63
         /\ InRange(data, offset) => At(data, offset) \notin 64..191

\* C8: encoding the header decoded from a 12-byte buffer gives back the buffer.
C8_HeaderBytesRoundTrip ==
    (IsHeaderDecode /\ offset = 0 /\ Len(data) = 12)
      => (out.st = "ok" /\ DnsHeader_to_bytes(out.val) = data)

\* C9: the header decoded at an offset is the header decoded at offset 0 from
\* the buffer that starts at that offset.
C9_HeaderAtOffset ==
    (IsHeaderDecode /\ Len(data) >= offset + 12)
      => out = DnsHeader_from_bytes(SubSeq(data, offset + 1, Len(data)), 0)

\* C10: a header decode with fewer than 12 bytes left from the offset returns
\* an error.
C10_ShortHeaderIsError ==
    (IsHeaderDecode /\ Len(data) < offset + 12) => out.st = "err"

\* where DnsResourceRecord::from_bytes reads the fields of the record decoded
\* at offset: right after the name, as the decoder measures it
FieldsIndex == offset + DnsName_length(DnsName_from_bytes(data, offset, MaxStack).val)

\* the rdlength field of a record whose fields start at index
RdlengthAt(buffer, index) == U16(At(buffer, index + 8), At(buffer, index + 9))

\* the record decoded has a name, all its fixed fields, and a type other than OPT
IsPlainRecord ==
    /\ IsRecordDecode
    /\ DnsName_from_bytes(data, offset, MaxStack).st = "ok"
    /\ InRange(data, FieldsIndex + 9)
    /\ U16(At(data, FieldsIndex), At(data, FieldsIndex + 1)) # 41

\* C11: the decode of a record that is not OPT and whose rdlength field
\* declares more bytes than remain after it returns an error.
C11_RdlengthBeyondBufferIsError ==
    (IsPlainRecord /\ RdlengthAt(data, FieldsIndex) > Len(data) - (FieldsIndex + 10))
      => out.st = "err"

\* C12: bit 6 of the second flags byte is 0 in the bytes that the encoders of
\* flags, headers, requests and responses produce, whatever the z field.
C12_ZBitIsZeroOnTheWire ==
    /\ call = "DnsFlags::to_bytes" => Bit(out.val[2], 6) = 0
    /\ call \in {"DnsHeader::to_bytes", "DnsRequest::to_bytes", "DnsResponse::to_bytes"}
          => Bit(out.val[4], 6) = 0

\* bits hi..lo of a byte, as a number
Bits(x, hi, lo) == (x \div (2 ^ lo)) % (2 ^ (hi - lo + 1))

\* C13: the flags decoded from two bytes b0, b1 have qr = bit 7 of b0,
\* opcode = from_u8(bits 6..3 of b0), aa, tc, rd = bits 2, 1, 0 of b0,
\* ra, z, ad, cd = bits 7, 6, 5, 4 of b1 and rcode = from_u8(bits 3..0 of b1);
\* every single-bit field is 0 or 1.
C13_FlagsBitLayout ==
    (call = "DnsFlags::from_bytes" /\ Len(data) >= offset + 2)
      => /\ out.st = "ok"
         /\ out.val.qr = Bit(At(data, offset), 7)
         /\ out.val.opcode = DnsOpcode_from_u8(Bits(At(data, offset), 6, 3))
         /\ out.val.aa = Bit(At(data, offset), 2)
         /\ out.val.tc = Bit(At(data, offset), 1)
         /\ out.val.rd = Bit(At(data, offset), 0)
         /\ out.val.ra = Bit(At(data, offset + 1), 7)
         /\ out.val.z = Bit(At(data, offset + 1), 6)
         /\ out.val.ad = Bit(At(data, offset + 1), 5)
         /\ out.val.cd = Bit(At(data, offset + 1), 4)
         /\ out.val.rcode = DnsRcode_from_u8(Bits(At(data, offset + 1), 3, 0))
         /\ \A f \in {"qr", "aa", "tc", "rd", "ra", "z", "ad", "cd"} :
               out.val[f] \in {0, 1}

\* the bytes 81 80 of tests::decode_flags have been decoded
C13_Witness ==
    /\ call = "DnsFlags::from_bytes"
    /\ data = <<129, 128>>
    /\ offset = 0
    /\ out.st = "ok"
    /\ out.val = [qr |-> 1, opcode |-> "Query", aa |-> 0, tc |-> 0, rd |-> 1,
                  ra |-> 1, z |-> 0, ad |-> 0, cd |-> 0, rcode |-> "NoError"]

\* the variants of an enumeration that name a code
Named(variants) == variants \ {"Unassigned", "Reserved"}

FromCalls ==
    {"DnsOpcode::from_u8", "DnsRcode::from_u8", "DnsRcode::from_u16",
     "DnsQType::from_u16", "DnsClass::from_u16"}

ToCalls ==
    {"DnsOpcode::to_u8", "DnsRcode::to_u8", "DnsRcode::to_u16",
     "DnsQType::to_u16", "DnsClass::to_u16"}

\* the variants of the enumeration that a conversion belongs to
VariantsOf(c) ==
    CASE c \in {"DnsOpcode::from_u8", "DnsOpcode::to_u8"} -> DnsOpcodeVariants
      [] c \in {"DnsRcode::from_u8", "DnsRcode::to_u8",
                "DnsRcode::from_u16", "DnsRcode::to_u16"} -> DnsRcodeVariants
      [] c \in {"DnsQType::from_u16", "DnsQType::to_u16"} -> DnsQTypeVariants
      [] c \in {"DnsClass::from_u16", "DnsClass::to_u16"} -> DnsClassVariants

\* to_code of the conversion pair that c belongs to
ToCode(c, v) ==
    CASE c \in {"DnsOpcode::from_u8", "DnsOpcode::to_u8"} -> DnsOpcode_to_u8(v)
      [] c \in {"DnsRcode::from_u8", "DnsRcode::to_u8"} -> DnsRcode_to_u8(v)
      [] c \in {"DnsRcode::from_u16", "DnsRcode::to_u16"} -> DnsRcode_to_u16(v)
      [] c \in {"DnsQType::from_u16", "DnsQType::to_u16"} -> DnsQType_to_u16(v)
      [] c \in {"DnsClass::from_u16", "DnsClass::to_u16"} -> DnsClass_to_u16(v)

\* from_code of the conversion pair that c belongs to
FromCode(c, n) ==
    CASE c \in {"DnsOpcode::from_u8", "DnsOpcode::to_u8"} -> DnsOpcode_from_u8(n)
      [] c \in {"DnsRcode::from_u8", "DnsRcode::to_u8"} -> DnsRcode_from_u8(n)
      [] c \in {"DnsRcode::from_u16", "DnsRcode::to_u16"} -> DnsRcode_from_u16(n)
      [] c \in {"DnsQType::from_u16", "DnsQType::to_u16"} -> DnsQType_from_u16(n)
      [] c \in {"DnsClass::from_u16", "DnsClass::to_u16"} -> DnsClass_from_u16(n)

\* the numeric domain the conversion is stated for: 4 bits in the header,
\* 16 bits elsewhere
InDomain(c, n) ==
    IF c \in {"DnsOpcode::from_u8", "DnsRcode::from_u8"} THEN n \in 0..15
    ELSE n \in 0..65535

\* C14: on its numeric domain every from_code returns a variant; when the
\* variant is a named one, to_code of it is the code again; a code that no
\* named variant encodes to gives Unassigned or Reserved.
C14_FromCodeTotalAndInvertible ==
    (call \in FromCalls /\ InDomain(call, value))
      => /\ out.st = "ok"
         /\ out.val \in VariantsOf(call)
         /\ out.val \in Named(VariantsOf(call)) => ToCode(call, out.val) = value
         /\ (\A v \in Named(VariantsOf(call)) : ToCode(call, v) # value)
               => out.val \in {"Unassigned", "Reserved"}

\* C15: for every named variant, of each enumeration and for both conversion
\* pairs of DnsRcode, from_code of the code that to_code gives is the variant.
C15_ToCodeInvertible ==
    (call \in ToCalls /\ value \in Named(VariantsOf(call)))
      => (out.st = "ok" /\ FromCode(call, out.val) = value)

\* C16: DnsRcode::from_u16 follows the ranges of RFC 6895: a named variant for
\* 0..10 and 16..22, Unassigned for 11..15, 23..3840 and 4096..65534, Reserved
\* for 3841..4095 and 65535.
C16_RcodeRanges ==
    call = "DnsRcode::from_u16"
      => /\ (value <= 10 \/ (16 <= value /\ value <= 22))
               => out.val \in Named(DnsRcodeVariants)
         /\ \/ (11 <= value /\ value <= 15)
            \/ (23 <= value /\ value <= 3840)
            \/ (4096 <= value /\ value <= 65534)
               => out.val = "Unassigned"
         /\ ((3841 <= value /\ value <= 4095) \/ value = 65535)
               => out.val = "Reserved"

\* C17: the bytes that to_bytes produces for a name are as many as length()
\* says: 2 when the pointer is set, else one per label, the bytes of the
\* labels, and one for the null terminator.
C17_NameBytesMatchLength ==
    call = "DnsName::to_bytes"
      => /\ out.st = "ok"
         /\ Len(out.val) = DnsName_length(value)
         /\ value.pointer # 0 => Len(out.val) = 2
         /\ value.pointer = 0
               => Len(out.val) = Len(value.labels) + Len(Concat(value.labels)) + 1

\* the name ab.c without a pointer has been encoded in 6 bytes
C17_Witness ==
    /\ call = "DnsName::to_bytes"
    /\ value.pointer = 0
    /\ value.labels = <<<<97, 98>>, <<99>>>>
    /\ out.val = NameAbC
    /\ DnsName_length(value) = 6

\* the index after the last byte of the name that starts at index i of the
\* buffer: after its null byte, or after the two bytes of its pointer
RECURSIVE NameEnd(_, _)
NameEnd(buffer, i) ==
    IF ~InRange(buffer, i) THEN i
    ELSE IF At(buffer, i) = 0 THEN i + 1
    ELSE IF At(buffer, i) >= 192 THEN i + 2
    ELSE NameEnd(buffer, i + 1 + At(buffer, i))

\* the 16-bit field at index i, or -1 when the buffer ends before it
FieldAt(buffer, i) ==
    IF InRange(buffer, i + 1) THEN U16(At(buffer, i), At(buffer, i + 1)) ELSE -1

\* the name of the value that a decode returned
NameOf(v) ==
    CASE IsNameDecode -> v
      [] IsQuestionDecode -> v.qname
      [] IsRecordDecode -> v.name

\* C18: a decoded name has the length() of the bytes it occupies in the
\* buffer, so that a question's qtype and qclass and a record's rtype are those
\* of the bytes right after the name, also when a label is not UTF-8 and when
\* labels are followed by a pointer.
C18_LengthIsBytesOccupied ==
    ((IsNameDecode \/ IsQuestionDecode \/ IsRecordDecode) /\ out.st = "ok")
      => /\ DnsName_length(NameOf(out.val)) = NameEnd(data, offset) - offset
         /\ IsQuestionDecode
               => /\ out.val.qtype
                        = DnsQType_from_u16(FieldAt(data, NameEnd(data, offset)))
                  /\ out.val.qclass
                        = DnsClass_from_u16(FieldAt(data, NameEnd(data, offset) + 2))
         /\ IsRecordDecode
               => out.val.rtype
                     = DnsQType_from_u16(FieldAt(data, NameEnd(data, offset)))

\* the record at offset is OPT: the two bytes after its name are 00 29
IsOptRecord == IsRecordDecode /\ FieldAt(data, NameEnd(data, offset)) = 41

\* C19: the decode of an OPT record keeps every byte after the type field, to
\* the end of the buffer, as its rdata; its encode is the name, the type and
\* the rdata; so the encode of the decoded record is the record's bytes.
C19_OptRecordRoundTrip ==
    (IsOptRecord /\ out.st = "ok")
      => /\ out.val.rdata = Slice(data, NameEnd(data, offset) + 2, Len(data))
         /\ DnsResourceRecord_to_bytes(out.val)
               = DnsName_to_bytes(out.val.name) \o <<0, 41>> \o out.val.rdata
         /\ DnsResourceRecord_to_bytes(out.val) = SubSeq(data, offset + 1, Len(data))

\* C20: a decoded request holds as many additional records as its arcount, a
\* decoded response as many answers as its ancount, and no list when the
\* count is 0; the rdata of each record decoded that is not OPT has rdlength
\* bytes.
C20_RecordCountsMatchHeader ==
    /\ (IsMessageDecode /\ out.st = "ok")
          => /\ AnnouncedIn(out.val.header) = 0 => RecordsOf(out.val) = None
             /\ AnnouncedIn(out.val.header) > 0
                   => /\ RecordsOf(out.val).some
                      /\ Len(RecordsOf(out.val).list) = AnnouncedIn(out.val.header)
             /\ \A i \in 1..Len(RecordsOf(out.val).list) :
                   RecordsOf(out.val).list[i].rtype # "OPT"
                      => Len(RecordsOf(out.val).list[i].rdata)
                            = RecordsOf(out.val).list[i].rdlength
    /\ (IsRecordDecode /\ out.st = "ok" /\ out.val.rtype # "OPT")
          => Len(out.val.rdata) = out.val.rdlength

\* the response of tests::decode_response has been decoded with its 2 answers
C20_Witness ==
    /\ call = "DnsResponse::from_bytes"
    /\ data = ScenarioB
    /\ out.st = "ok"
    /\ out.val.header.ancount = 2
    /\ Len(out.val.answers.list) = 2
    /\ out.val.answers.list[2].rdata = <<172, 67, 176, 182>>
    /\ out.val.answers.list[2].rdlength = 4

\* the records present in the buffer from index i on: each is a name, ten
\* bytes of fixed fields and the rdata its rdlength declares, all within the
\* buffer, or an OPT record, which takes the rest of the buffer
RECURSIVE RecordsPresent(_, _)
RecordsPresent(buffer, i) ==
    IF ~InRange(buffer, NameEnd(buffer, i) + 1) THEN 0
    ELSE IF FieldAt(buffer, NameEnd(buffer, i)) = 41 THEN 1
    ELSE IF ~InRange(buffer, NameEnd(buffer, i) + 9) THEN 0
    ELSE IF NameEnd(buffer, i) + 10 + RdlengthAt(buffer, NameEnd(buffer, i))
               > Len(buffer) THEN 0
    ELSE 1 + RecordsPresent(buffer,
                 NameEnd(buffer, i) + 10 + RdlengthAt(buffer, NameEnd(buffer, i)))

\* the records that the three record counts of a header announce
Announced(h) == h.ancount + h.nscount + h.arcount

\* C21: a decoded message has one question and as many records after it in
\* the buffer as its ancount, nscount and arcount announce together (each
\* section holds what its count says); a buffer with other counts does not
\* decode.
C21_CountsMatchSections ==
    (IsMessageDecode /\ out.st = "ok")
      => /\ out.val.header.qdcount = 1
         /\ Announced(out.val.header)
               = RecordsPresent(data, NameEnd(data, 12) + 4)

IsFromRequest == call = "DnsResponse::from_request"

\* C22: the response built from a request r has r's id, qr = 1, r's rd,
\* ra = 1, ancount = 1, nscount = 0, arcount = 0, r's question and exactly one
\* answer; r is one of the requests handed over, as it was.
C22_FromRequestHeader ==
    IsFromRequest
      => /\ out.st = "ok"
         /\ out.val.header.id = value.header.id
         /\ out.val.header.flags.qr = 1
         /\ out.val.header.flags.rd = value.header.flags.rd
         /\ out.val.header.flags.ra = 1
         /\ out.val.header.ancount = 1
         /\ out.val.header.nscount = 0
         /\ out.val.header.arcount = 0
         /\ out.val.question = value.question
         /\ out.val.answers.some
         /\ Len(out.val.answers.list) = out.val.header.ancount
         /\ value \in RequestValues

\* a response has been built from a request with rd = 0 and another id than
\* the default
C22_Witness ==
    /\ IsFromRequest
    /\ value.header.id = 16710
    /\ value.header.flags.rd = 0
    /\ value.header.flags.ra = 0
    /\ out.val.header.id = 16710
    /\ out.val.header.flags.rd = 0
    /\ out.val.header.flags.ra = 1
    /\ Len(out.val.answers.list) = 1

\* C23: the answer of the response built from a request, whatever the type
\* and class of its question, has type A, ttl 300, rdlength 4, rdata
\* 127.0.0.1 and the labels of the question name.
C23_AnswerIsARecord ==
    IsFromRequest
      => /\ out.val.answers.list[1].rtype = "A"
         /\ out.val.answers.list[1].ttl = 300
         /\ out.val.answers.list[1].rdlength = 4
         /\ out.val.answers.list[1].rdata = <<127, 0, 0, 1>>
         /\ out.val.answers.list[1].name.labels = value.question.qname.labels

\* the results of the record decodes that a message decode makes, in order,
\* from the record at index on, up to the first that is not a success
RECURSIVE RecordResults(_, _, _)

RecordResultsFrom(buffer, index, count, record) ==
    IF record.st # "ok" THEN <<record>>
    ELSE <<record>> \o RecordResults(buffer,
                           index + DnsName_length(record.val.name) + 10
                                 + record.val.rdlength,
                           count - 1)

RecordResults(buffer, index, count) ==
    IF count = 0 THEN <<>>
    ELSE RecordResultsFrom(buffer, index, count,
                           DnsResourceRecord_from_bytes(buffer, index))

\* the results of the decodes of the parts of the message in the buffer: the
\* header, the question and, when both succeed, the announced records
SubDecodes ==
    <<DnsHeader_from_bytes(data, 0), DnsQuestion_from_bytes(data, 12, MaxStack)>>
        \o (IF /\ DnsHeader_from_bytes(data, 0).st = "ok"
               /\ DnsQuestion_from_bytes(data, 12, MaxStack).st = "ok"
            THEN RecordResults(data,
                     12 + DnsName_length(
                            DnsQuestion_from_bytes(data, 12, MaxStack).val.qname) + 4,
                     AnnouncedIn(DnsHeader_from_bytes(data, 0).val))
            ELSE <<>>)

\* C24: when the decode of the header, of the question or of an announced
\* record returns an error, the message decode returns an error; a message is
\* returned only when every part decoded, and it holds all of them.
C24_NoPartialMessage ==
    IsMessageDecode
      => /\ (\E i \in 1..Len(SubDecodes) : SubDecodes[i].st = "err") => out.st = "err"
         /\ out.st = "ok"
               => /\ \A i \in 1..Len(SubDecodes) : SubDecodes[i].st = "ok"
                  /\ Len(SubDecodes) = 2 + AnnouncedIn(out.val.header)
                  /\ out.val.header = SubDecodes[1].val
                  /\ out.val.question = SubDecodes[2].val
                  /\ \A i \in 1..Len(RecordsOf(out.val).list) :
                        RecordsOf(out.val).list[i] = SubDecodes[2 + i].val

\* a response that announces two answers, the second of which is named by a
\* pointer to another offset than the question name's, has failed to decode
C24_Witness ==
    /\ call = "DnsResponse::from_bytes"
    /\ Len(SubDecodes) = 4
    /\ SubDecodes[3].st = "ok"
    /\ SubDecodes[4].st = "err"
    /\ out.st = "err"

\* C25: the reply that handle_request serializes for a decoded request
\* decodes as a response with the header, the question and the one answer of
\* the response built from the request, whatever the question's type and
\* class.
C25_ReplyDecodesToResponse ==
    worker = "send"
      => /\ DnsResponse_from_bytes(reply, 0).st = "ok"
         /\ DnsResponse_from_bytes(reply, 0).val.header = response.header
         /\ SameQuestion(DnsResponse_from_bytes(reply, 0).val.question,
                         response.question)
         /\ SameRecords(DnsResponse_from_bytes(reply, 0).val.answers,
                        response.answers)

\* C26: once a stop signal has been received the worker leaves its loop with
\* success and main returns Ok, whether the worker was idle or handling a
\* datagram; a worker that has observed the stop takes up no datagram.
C26_StopLeadsToCleanExit ==
    /\ stop ~> (worker = "stopped" /\ main = "ok")
    /\ [][worker = "stopped" => (worker' = "stopped" /\ buf' = buf)]_vars

====
